---- MODULE Spec2Model ----
(***************************************************************************)
(* Model of the saved-search alert engine of pyp (Junkyard Index):         *)
(*   - the cron route GET /api/cron/check-alerts (src/unnamed/part_018),   *)
(*     its per-search worker and processSearch / sendNotifications;        *)
(*   - the savedSearches tRPC router, the user router, the unsubscribe     *)
(*     route and the Polar webhook, which write the same SavedSearch rows. *)
(*                                                                         *)
(* The database is the shared state.  Every db statement of the cron route *)
(* is awaited, so other requests interleave between statements: the cron   *)
(* route is modelled statement by statement, the short user-facing         *)
(* handlers as one step each.  Upstream inventory, the subscription        *)
(* oracle and the notification sinks are the environment: their answers    *)
(* are drawn with \E.  Only authorized cron requests are modelled (an      *)
(* unauthorized one returns 401 before touching anything), and rows and    *)
(* users are not deleted while the engine runs.                            *)
(***************************************************************************)
EXTENDS Integers, Sequences, FiniteSets, TLC

\* ---------------------------------------------------------------- bounds
MaxTicks == 2           \* the clock advances at most this many times
NumVehicles == 2        \* upstream vehicle ids are 1..NumVehicles
MaxListLen == 3         \* a merged list holds at most this many vehicles
NumLocations == 6       \* the PYP location list holds at most this many locations

\* ------------------------------------------------------ program constants
LOCK_TIMEOUT_MS == 5 * 60 * 1000
BATCH_SIZE == 5
\* SEARCH_CONFIG
MAX_CONCURRENT_REQUESTS == 5
MAX_RETRIES == 3

\* one clock step; ages 0, LOCK_TIMEOUT_MS and 2*LOCK_TIMEOUT_MS cover
\* "newer than", "exactly at" and "older than" the staleness threshold
TickMs == LOCK_TIMEOUT_MS

SearchIds == {"s1", "s2", "s3", "s4", "s5", "s6"}
TwoSearches == {"s1", "s2"}
\* the saved searches in the order of their insertion
IdOrder == <<"s1", "s2", "s3", "s4", "s5", "s6">>
Users == {"u1"}
Runs == {"r1", "r2"}
VehicleIds == 1..NumVehicles
Locations == 1..NumLocations

\* SQL NULL of a timestamp column, and of the lastVehicleIds text column
NoDate == -1
\* minYear / maxYear of a filter bag: undefined
NoYear == -1
NULL == <<>>

VARIABLES
  now,      \* Date.now()
  rows,     \* table saved_search: id -> row
  users,    \* table user: id -> [discordId, discordAppInstalled]
  sub,      \* Polar: user -> has an active subscription
  webhook,  \* Polar: user -> customer.state_changed payload not yet delivered
  runPc,    \* cron invocation -> "idle" | "locking" | "running"
  sel,      \* cron invocation -> searchesWithAlerts (rows as read by the select)
  bi,       \* cron invocation -> i of the batch loop
  lk,       \* cron invocation -> lock writes done for the current batch
  wk,       \* cron invocation -> search id -> the batch.map worker
  hist,     \* history of the behaviour (not program state)
  allVehicles,           \* search: allVehicles (the merged list)
  deduplicatedVehicles,  \* search: deduplicatedVehicles
  dedupePasses,          \* applications of deduplicateVehicles so far
  signal,                \* search: signal.aborted
  pypPc,                 \* search: position of the pyp branch
  row52Pc,               \* search: position of the row52 branch
  queue,                 \* pLimit: the tasks that wait, in submission order
  task,                  \* location -> its limit(...) task
  locationsWithErrors,   \* search: locationsWithErrors
  totalLocationsCovered, \* search: totalLocationsCovered
  searchResult,          \* how the call of search ended
  filters,               \* the stored filter bag of a saved search
  currentVehicleIds,     \* processSearch: currentVehicleIds
  filteredVehicles       \* SearchPageContent: filteredVehicles

alertVars == <<now, rows, users, sub, webhook, runPc, sel, bi, lk, wk, hist>>
mergeVars == <<allVehicles, deduplicatedVehicles, dedupePasses>>
fanoutVars == <<signal, pypPc, row52Pc, queue, task, locationsWithErrors,
                totalLocationsCovered, searchResult>>
filterVars == <<filters, currentVehicleIds, filteredVehicles>>
searchVars == <<mergeVars, fanoutVars, filterVars>>
vars == <<alertVars, searchVars>>
dbVars == <<rows, users>>
envVars == <<sub, webhook>>
runVars == <<runPc, sel, bi, lk, wk>>

\* ------------------------------------------------------------- the schema
NoRow ==
  [exists |-> FALSE, userId |-> "u1",
   emailAlertsEnabled |-> FALSE, discordAlertsEnabled |-> FALSE,
   lastCheckedAt |-> NoDate, lastVehicleIds |-> NULL, processingLock |-> NoDate]

IdleWorker ==
  [pc |-> "none", discordId |-> FALSE, discordAppInstalled |-> FALSE,
   cur |-> {}, payload |-> {}, emailSent |-> FALSE, discordSent |-> FALSE,
   errors |-> {}, status |-> <<>>, lockedAt |-> NoDate]

\* JSON.stringify(currentVehicleIds) and the parse of the stored column
Stringify(ids) == <<ids>>

ParseIds(text) == IF text = NULL THEN {} ELSE text[1]

Min(a, b) == IF a < b THEN a ELSE b

Orderings(S) ==
  {q \in [1..Cardinality(S) -> S] :
     \A i, j \in 1..Cardinality(S) : i # j => q[i] # q[j]}

\* ------------------------------------------------------------------- Init
InitAlerts ==
  /\ now = 0
  /\ rows = [s \in SearchIds |-> NoRow]
  /\ users = [u \in Users |-> [discordId |-> FALSE, discordAppInstalled |-> FALSE]]
  /\ sub = [u \in Users |-> FALSE]
  /\ webhook = [u \in Users |-> "none"]
  /\ runPc = [r \in Runs |-> "idle"]
  /\ sel = [r \in Runs |-> <<>>]
  /\ bi = [r \in Runs |-> 0]
  /\ lk = [r \in Runs |-> 0]
  /\ wk = [r \in Runs |-> [s \in SearchIds |-> IdleWorker]]
  /\ hist = [clean |-> TRUE,
             baseline |-> [s \in SearchIds |-> "none"],
             recording |-> FALSE,
             notified |-> [s \in SearchIds |-> {}]]

\* no search call is in progress
IdleTask == [pc |-> "none", attemptNumber |-> 0, last |-> "none", result |-> "pending"]

NoResult ==
  [status |-> "pending", vehicles |-> <<>>, locationsCovered |-> 0,
   locationsWithErrors |-> <<>>]

InitFanout ==
  /\ signal = FALSE
  /\ pypPc = "idle"
  /\ row52Pc = "idle"
  /\ queue = <<>>
  /\ task = [l \in Locations |-> IdleTask]
  /\ locationsWithErrors = <<>>
  /\ totalLocationsCovered = 0
  /\ searchResult = NoResult

\* a result that is not computed yet
NotComputed == [computed |-> FALSE, ids |-> {}]

\* a saved search without filters
NoFilters ==
  [makes |-> <<>>, colors |-> <<>>, states |-> <<>>, salvageYards |-> <<>>,
   minYear |-> NoYear, maxYear |-> NoYear]

InitFilter ==
  /\ filters = NoFilters
  /\ currentVehicleIds = NotComputed
  /\ filteredVehicles = NotComputed

InitSearch ==
  /\ allVehicles = <<>>
  /\ deduplicatedVehicles = <<>>
  /\ dedupePasses = 0
  /\ InitFanout
  /\ InitFilter

Init == InitAlerts /\ InitSearch

\* ------------------------------------------------------- the cron route GET
\* a select that takes a lock of exactly the timeout's age for stale
IsEligibleInclusive(row, staleLockThreshold) ==
  /\ row.exists
  /\ (row.emailAlertsEnabled \/ row.discordAlertsEnabled)
  /\ (row.processingLock = NoDate \/ row.processingLock <= staleLockThreshold)

\* a select without the staleness disjunct
IsEligibleUnlockedOnly(row, staleLockThreshold) ==
  /\ row.exists
  /\ (row.emailAlertsEnabled \/ row.discordAlertsEnabled)
  /\ row.processingLock = NoDate

\* the WHERE clause of the select, for one row
IsEligible(row, staleLockThreshold) ==
  /\ row.exists
  /\ (row.emailAlertsEnabled \/ row.discordAlertsEnabled)
  /\ (row.processingLock = NoDate \/ row.processingLock < staleLockThreshold)

\* the columns the select reads
Selected(s) ==
  [id |-> s, userId |-> rows[s].userId,
   lastVehicleIds |-> rows[s].lastVehicleIds,
   emailAlertsEnabled |-> rows[s].emailAlertsEnabled,
   discordAlertsEnabled |-> rows[s].discordAlertsEnabled]

SelIds(r) == {sel[r][i].id : i \in 1..Len(sel[r])}

\* indices of batch = searchesWithAlerts.slice(i, i + BATCH_SIZE)
BatchIdx(r) == (bi[r] + 1)..Min(bi[r] + BATCH_SIZE, Len(sel[r]))

BatchIds(r) == {sel[r][i].id : i \in BatchIdx(r)}

SearchOf(r, s) == CHOOSE x \in {sel[r][i] : i \in 1..Len(sel[r])} : x.id = s

\* the rows of S in the order of their insertion
ByInsertion(S) == {SelectSeq(IdOrder, LAMBDA s : s \in S)}

\* the select of searchesWithAlerts, the database answering with the rows
\* in the order of their insertion or in any order
CronSelectBy(r, byInsertion) ==
  /\ runPc[r] = "idle"
  /\ LET staleLockThreshold == now - LOCK_TIMEOUT_MS
         eligible == {s \in SearchIds : IsEligible(rows[s], staleLockThreshold)}
     IN  /\ eligible # {}
         /\ \E q \in (IF byInsertion THEN ByInsertion(eligible) ELSE Orderings(eligible)) :
              sel' = [sel EXCEPT ![r] = [i \in 1..Cardinality(eligible) |-> Selected(q[i])]]
  /\ runPc' = [runPc EXCEPT ![r] = "locking"]
  /\ bi' = [bi EXCEPT ![r] = 0]
  /\ lk' = [lk EXCEPT ![r] = 0]
  /\ hist' = [hist EXCEPT !.clean = @ /\ \A r2 \in Runs : runPc[r2] = "idle"]
  /\ UNCHANGED <<now, dbVars, envVars, wk, searchVars>>

\* the result order of a select without ORDER BY is the database's choice
CronSelect(r) == CronSelectBy(r, FALSE)

\* one iteration of "for (const id of batchIds) update processingLock";
\* after the last one Promise.all starts the workers of the batch
AcquireLock(r) ==
  /\ runPc[r] = "locking"
  /\ LET idx == bi[r] + lk[r] + 1
         id == sel[r][idx].id
         last == idx = Min(bi[r] + BATCH_SIZE, Len(sel[r]))
     IN  /\ rows' = [rows EXCEPT ![id].processingLock =
                       IF rows[id].exists THEN now ELSE @]
         /\ lk' = [lk EXCEPT ![r] = @ + 1]
         /\ runPc' = [runPc EXCEPT ![r] = IF last THEN "running" ELSE @]
         /\ wk' = [wk EXCEPT ![r] =
                     [s \in SearchIds |->
                        IF s = id THEN [wk[r][s] EXCEPT !.lockedAt = now,
                                          !.pc = IF last THEN "user" ELSE "wait"]
                        ELSE IF last /\ s \in BatchIds(r)
                             THEN [wk[r][s] EXCEPT !.pc = "user"]
                        ELSE wk[r][s]]]
  /\ UNCHANGED <<now, users, envVars, sel, bi, hist, searchVars>>

\* what polarClient.customers.getStateExternal can answer for user u
OracleOutcomes(u) == {"throws"} \cup (IF sub[u] THEN {"active"} ELSE {"none"})

\* a check that clears the toggles only in its catch
DisablesAlertsOnThrowOnly(outcome) == outcome = "throws"

\* the toggles are cleared on these answers of the oracle
DisablesAlerts(outcome) == outcome \in {"none", "throws"}

\* worker: select of the user row, then the subscription check (every user
\* row has an email, so the no_user_email return is never taken)
CheckUser(r, s) ==
  /\ runPc[r] = "running"
  /\ wk[r][s].pc = "user"
  /\ \E outcome \in OracleOutcomes(SearchOf(r, s).userId) :
       IF DisablesAlerts(outcome)
       THEN /\ rows' = [rows EXCEPT ![s].emailAlertsEnabled = FALSE,
                                    ![s].discordAlertsEnabled = FALSE,
                                    ![s].processingLock = NoDate]
            /\ wk' = [wk EXCEPT ![r][s].pc = "done",
                        ![r][s].status =
                          IF outcome = "none" THEN <<"subscription_expired_disabled">>
                          ELSE <<"no_subscription_disabled">>]
       ELSE /\ wk' = [wk EXCEPT ![r][s].pc = "search",
                        ![r][s].discordId = users[SearchOf(r, s).userId].discordId,
                        ![r][s].discordAppInstalled =
                          users[SearchOf(r, s).userId].discordAppInstalled]
            /\ rows' = rows
  /\ UNCHANGED <<now, users, envVars, runPc, sel, bi, lk, hist, searchVars>>

\* previousVehicleIds of processSearch
PreviousIds(search) == ParseIds(search.lastVehicleIds)

\* a diff that forgets the previous snapshot
NewIdsAll(current, previous) == current

\* newVehicleIds of processSearch
NewIds(current, previous) == current \ previous

\* "if (previousVehicleIds.length === 0)": the run only stores a baseline
IsBaselineRun(previous) == previous = {}

\* worker: processSearch up to its first db write or to the dispatch;
\* current is the id set of the filtered result of caller.vehicles.search
\* (stored filters were validated by create, so invalid_filters is never
\* returned)
ProcessSearch(r, s, current) ==
  /\ runPc[r] = "running"
  /\ wk[r][s].pc = "search"
  /\   LET previous == PreviousIds(SearchOf(r, s))
           newIds == NewIds(current, previous)
       IN  IF IsBaselineRun(previous) \/ newIds = {}
           THEN /\ rows' = [rows EXCEPT ![s].lastCheckedAt = now,
                                        ![s].lastVehicleIds = Stringify(current)]
                /\ wk' = [wk EXCEPT ![r][s].pc = "release",
                            ![r][s].cur = current,
                            ![r][s].status =
                              IF IsBaselineRun(previous)
                              THEN <<"first_check_baseline_set">>
                              ELSE <<"no_new_vehicles">>]
                /\ hist' = [hist EXCEPT !.baseline[s] =
                              IF SearchOf(r, s).lastVehicleIds = NULL /\ @ = "none"
                              THEN (IF current = {} THEN "empty" ELSE "nonempty")
                              ELSE @]
           ELSE /\ wk' = [wk EXCEPT ![r][s].pc = "notify",
                            ![r][s].cur = current,
                            ![r][s].payload = newIds]
                /\ hist' = [hist EXCEPT !.notified[s] =
                              IF hist.recording THEN @ \cup newIds ELSE @]
                /\ UNCHANGED rows
  /\ UNCHANGED <<now, users, envVars, runPc, sel, bi, lk, searchVars>>

\* worker: caller.vehicles.search (or anything else in processSearch) throws;
\* the catch of the worker releases the lock
ProcessSearchThrows(r, s) ==
  /\ runPc[r] = "running"
  /\ wk[r][s].pc = "search"
  /\ rows' = [rows EXCEPT ![s].processingLock = NoDate]
  /\ wk' = [wk EXCEPT ![r][s].pc = "done", ![r][s].status = <<"error">>]
  /\ hist' = [hist EXCEPT !.clean = FALSE]
  /\ UNCHANGED <<now, users, envVars, runPc, sel, bi, lk, searchVars>>

\* a catch that returns the error status and leaves the lock in place
WorkerThrowsKeepingLock(r, s) ==
  /\ runPc[r] = "running"
  /\ wk[r][s].pc \in {"user", "persist", "release"}
  /\ wk' = [wk EXCEPT ![r][s].pc = "done", ![r][s].status = <<"error">>]
  /\ hist' = [hist EXCEPT !.clean = FALSE]
  /\ UNCHANGED <<now, rows, users, envVars, runPc, sel, bi, lk, searchVars>>

\* worker: a database call of the worker throws (the select of the user
\* row, the snapshot update or the release of the lock); the catch of the
\* worker releases the lock
WorkerThrows(r, s) ==
  /\ runPc[r] = "running"
  /\ wk[r][s].pc \in {"user", "persist", "release"}
  /\ rows' = [rows EXCEPT ![s].processingLock = NoDate]
  /\ wk' = [wk EXCEPT ![r][s].pc = "done", ![r][s].status = <<"error">>]
  /\ hist' = [hist EXCEPT !.clean = FALSE]
  /\ UNCHANGED <<now, users, envVars, runPc, sel, bi, lk, searchVars>>

\* the channels sendNotifications attempts for a search and its user
EmailAttempted(search) == search.emailAlertsEnabled

\* a dispatch that tries Discord whenever the toggle is on
DiscordAttemptedWhenEnabled(search, w) == search.discordAlertsEnabled

DiscordAttempted(search, w) ==
  search.discordAlertsEnabled /\ w.discordId /\ w.discordAppInstalled

\* statusParts of processSearch
StatusParts(emailSent, discordSent, errors) ==
  LET parts == (IF emailSent THEN <<"email_sent">> ELSE <<>>)
               \o (IF discordSent THEN <<"discord_sent">> ELSE <<>>)
               \o (IF errors # {} THEN <<"errors">> ELSE <<>>)
  IN  IF parts = <<>> THEN <<"no_notifications_sent">> ELSE parts

\* worker: sendNotifications; emailOk / discordOk are the sinks' answers
\* (both sinks catch every exception and answer {success: false})
SendNotifications(r, s) ==
  /\ runPc[r] = "running"
  /\ wk[r][s].pc = "notify"
  /\ \E emailOk \in BOOLEAN, discordOk \in BOOLEAN :
       LET search == SearchOf(r, s)
           w == wk[r][s]
           emailSent == EmailAttempted(search) /\ emailOk
           discordSent == DiscordAttempted(search, w) /\ discordOk
           errors ==
             (IF EmailAttempted(search) /\ ~emailOk THEN {"Email failed"} ELSE {})
             \cup (IF search.discordAlertsEnabled /\ ~w.discordId
                   THEN {"no Discord ID linked"} ELSE {})
             \cup (IF search.discordAlertsEnabled /\ w.discordId /\ ~w.discordAppInstalled
                   THEN {"Discord app not installed"} ELSE {})
             \cup (IF DiscordAttempted(search, w) /\ ~discordOk
                   THEN {"Discord failed"} ELSE {})
       IN  wk' = [wk EXCEPT ![r][s].pc = "persist",
                    ![r][s].emailSent = emailSent,
                    ![r][s].discordSent = discordSent,
                    ![r][s].errors = errors]
  /\ UNCHANGED <<now, dbVars, envVars, runPc, sel, bi, lk, hist, searchVars>>

\* a run that keeps the new vehicles out of the snapshot when a delivery
\* failed, to alert on them again
SnapshotUnlessFailed(w) ==
  IF w.errors = {} THEN Stringify(w.cur) ELSE Stringify(w.cur \ w.payload)

\* the snapshot a run stores after the dispatch
SnapshotAfterDispatch(w) == Stringify(w.cur)

\* worker: "Update the stored vehicle IDs regardless of notification success"
PersistSnapshot(r, s) ==
  /\ runPc[r] = "running"
  /\ wk[r][s].pc = "persist"
  /\ rows' = [rows EXCEPT ![s].lastCheckedAt = now,
                          ![s].lastVehicleIds = SnapshotAfterDispatch(wk[r][s])]
  /\ wk' = [wk EXCEPT ![r][s].pc = "release",
              ![r][s].status =
                StatusParts(wk[r][s].emailSent, wk[r][s].discordSent, wk[r][s].errors)]
  /\ UNCHANGED <<now, users, envVars, runPc, sel, bi, lk, hist, searchVars>>

\* worker: "Release lock after successful processing"
ReleaseLock(r, s) ==
  /\ runPc[r] = "running"
  /\ wk[r][s].pc = "release"
  /\ rows' = [rows EXCEPT ![s].processingLock = NoDate]
  /\ wk' = [wk EXCEPT ![r][s].pc = "done"]
  /\ UNCHANGED <<now, users, envVars, runPc, sel, bi, lk, hist, searchVars>>

\* Promise.all of the batch resolved: next batch, or the response
FinishBatch(r) ==
  /\ runPc[r] = "running"
  /\ \A s \in BatchIds(r) : wk[r][s].pc = "done"
  /\ IF bi[r] + BATCH_SIZE < Len(sel[r])
     THEN /\ bi' = [bi EXCEPT ![r] = @ + BATCH_SIZE]
          /\ lk' = [lk EXCEPT ![r] = 0]
          /\ runPc' = [runPc EXCEPT ![r] = "locking"]
          /\ UNCHANGED <<sel, wk>>
     ELSE /\ bi' = [bi EXCEPT ![r] = 0]
          /\ lk' = [lk EXCEPT ![r] = 0]
          /\ runPc' = [runPc EXCEPT ![r] = "idle"]
          /\ sel' = [sel EXCEPT ![r] = <<>>]
          /\ wk' = [wk EXCEPT ![r] = [s \in SearchIds |-> IdleWorker]]
  /\ UNCHANGED <<now, dbVars, envVars, hist, searchVars>>

\* the serverless invocation is killed (function timeout, process death):
\* nothing it holds is released
Crash(r) ==
  /\ runPc[r] # "idle"
  /\ runPc' = [runPc EXCEPT ![r] = "idle"]
  /\ sel' = [sel EXCEPT ![r] = <<>>]
  /\ bi' = [bi EXCEPT ![r] = 0]
  /\ lk' = [lk EXCEPT ![r] = 0]
  /\ wk' = [wk EXCEPT ![r] = [s \in SearchIds |-> IdleWorker]]
  /\ hist' = [hist EXCEPT !.clean = FALSE]
  /\ UNCHANGED <<now, dbVars, envVars, searchVars>>

Tick ==
  /\ now < MaxTicks * TickMs
  /\ now' = now + TickMs
  /\ UNCHANGED <<dbVars, envVars, runVars, hist, searchVars>>

\* ------------------------------------------------ savedSearches tRPC router
\* create: the insert; lastCheckedAt, lastVehicleIds and processingLock take
\* their column default (NULL); ids are fresh UUIDs
Create(u, s, emailAlertsEnabled, discordAlertsEnabled) ==
  /\ ~rows[s].exists
  /\ rows' = [rows EXCEPT ![s] =
                [exists |-> TRUE, userId |-> u,
                 emailAlertsEnabled |-> emailAlertsEnabled,
                 discordAlertsEnabled |-> discordAlertsEnabled,
                 lastCheckedAt |-> NoDate, lastVehicleIds |-> NULL,
                 processingLock |-> NoDate]]
  /\ UNCHANGED <<now, users, envVars, runVars, hist, searchVars>>

\* toggleEmailAlerts: enabling is FORBIDDEN unless the oracle answers with
\* an active subscription
ToggleEmailAlerts(u, s, enabled) ==
  /\ rows[s].exists /\ rows[s].userId = u
  /\ \E outcome \in OracleOutcomes(u) :
       /\ enabled => outcome = "active"
       /\ rows' = [rows EXCEPT ![s].emailAlertsEnabled = enabled]
  /\ rows' # rows
  /\ UNCHANGED <<now, users, envVars, runVars, hist, searchVars>>

\* toggleDiscordAlerts: as above, and PRECONDITION_FAILED unless the user
\* row has a discordId and discordAppInstalled
ToggleDiscordAlerts(u, s, enabled) ==
  /\ rows[s].exists /\ rows[s].userId = u
  /\ \E outcome \in OracleOutcomes(u) :
       /\ enabled => /\ outcome = "active"
                     /\ users[u].discordId
                     /\ users[u].discordAppInstalled
       /\ rows' = [rows EXCEPT ![s].discordAlertsEnabled = enabled]
  /\ rows' # rows
  /\ UNCHANGED <<now, users, envVars, runVars, hist, searchVars>>

\* ------------------------------------------------------- unsubscribe route
\* an unsubscribe that also forgets the snapshot of the search
UnsubscribeForgetting(s) ==
  /\ rows[s].exists
  /\ rows[s].emailAlertsEnabled
  /\ rows' = [rows EXCEPT ![s].emailAlertsEnabled = FALSE,
                          ![s].lastVehicleIds = NULL]
  /\ UNCHANGED <<now, users, envVars, runVars, hist, searchVars>>

\* POST with a valid token (an invalid one is answered 400, nothing written)
Unsubscribe(s) ==
  /\ rows[s].exists
  /\ rows[s].emailAlertsEnabled
  /\ rows' = [rows EXCEPT ![s].emailAlertsEnabled = FALSE]
  /\ UNCHANGED <<now, users, envVars, runVars, hist, searchVars>>

\* -------------------------------------------------------------- user router
\* databaseHooks.account.create.after: sign-in with Discord sets discordId
LinkDiscord(u) ==
  /\ ~users[u].discordId
  /\ users' = [users EXCEPT ![u].discordId = TRUE]
  /\ UNCHANGED <<now, rows, envVars, runVars, hist, searchVars>>

\* verifyDiscordAppInstalled, with the test DM delivered
VerifyDiscordAppInstalled(u) ==
  /\ users[u].discordId
  /\ ~users[u].discordAppInstalled
  /\ users' = [users EXCEPT ![u].discordAppInstalled = TRUE]
  /\ UNCHANGED <<now, rows, envVars, runVars, hist, searchVars>>

DisconnectDiscordApp(u) ==
  /\ users[u].discordAppInstalled
  /\ users' = [users EXCEPT ![u].discordAppInstalled = FALSE]
  /\ rows' = [s \in SearchIds |->
                IF rows[s].exists /\ rows[s].userId = u
                THEN [rows[s] EXCEPT !.discordAlertsEnabled = FALSE]
                ELSE rows[s]]
  /\ UNCHANGED <<now, envVars, runVars, hist, searchVars>>

\* ------------------------------------------------------ Polar and its webhook
\* the user's subscription starts or lapses at Polar, which queues a
\* customer.state_changed webhook carrying the new state
SubscriptionChange(u) ==
  /\ sub' = [sub EXCEPT ![u] = ~@]
  /\ webhook' = [webhook EXCEPT ![u] = IF sub[u] THEN "inactive" ELSE "active"]
  /\ UNCHANGED <<now, dbVars, runVars, hist, searchVars>>

\* onCustomerStateChanged
OnCustomerStateChanged(u) ==
  /\ webhook[u] # "none"
  /\ webhook' = [webhook EXCEPT ![u] = "none"]
  /\ rows' = [s \in SearchIds |->
                IF webhook[u] = "inactive" /\ rows[s].exists /\ rows[s].userId = u
                THEN [rows[s] EXCEPT !.emailAlertsEnabled = FALSE]
                ELSE rows[s]]
  /\ UNCHANGED <<now, users, sub, runVars, hist, searchVars>>

\* ------------------------------------------- vehicles router: the merge
\* a VIN is a string, here the sequence of its characters; the scraped
\* VIN of a block without the label is the empty string
EmptyVin == <<>>

Vin(n) == <<n>>

Sources == {"pyp", "row52"}

\* the vehicles a merged list is drawn from: two of them can share a VIN, a
\* source, or both
MergedVehicles ==
  [id : VehicleIds, vin : {EmptyVin, Vin(1)}, source : Sources, locationCode : {1}]

\* the lists of at most n elements of S
SeqUpTo(S, n) == UNION {[1..k -> S] : k \in 0..n}

\* vinMap.get(vin): the entry under the key, if there is one
MapGet(vinMap, vin) == SelectSeq(vinMap, LAMBDA e : e.vin = vin)

\* a map whose set adds a second entry under a key it already holds
MapSetAppend(vinMap, vehicle) == Append(vinMap, vehicle)

\* vinMap.set(vehicle.vin, vehicle): a Map holds one entry per key, and a
\* key keeps the position of its first insertion
MapSet(vinMap, vehicle) ==
  IF MapGet(vinMap, vehicle.vin) = <<>>
  THEN Append(vinMap, vehicle)
  ELSE [i \in 1..Len(vinMap) |->
          IF vinMap[i].vin = vehicle.vin THEN vehicle ELSE vinMap[i]]

\* a merge in which the first vehicle of a VIN always stays
ReplacesExistingNever(vehicle, existing) == FALSE

\* vehicle.source === "pyp" && existing.source === "row52"
ReplacesExisting(vehicle, existing) ==
  vehicle.source = "pyp" /\ existing.source = "row52"

\* the for loop of deduplicateVehicles over the rest of the list
RECURSIVE VinMapAfter(_, _)
VinMapAfter(vinMap, vehicles) ==
  IF vehicles = <<>> THEN vinMap
  ELSE LET vehicle == Head(vehicles)
           existing == MapGet(vinMap, vehicle.vin)
       IN  VinMapAfter(
             IF existing = <<>> \/ ReplacesExisting(vehicle, existing[1])
             THEN MapSet(vinMap, vehicle)
             ELSE vinMap,
             Tail(vehicles))

\* Array.from(vinMap.values())
deduplicateVehicles(vehicles) == VinMapAfter(<<>>, vehicles)

\* deduplicateVehicles(allVehicles)
Deduplicate ==
  /\ dedupePasses = 0
  /\ deduplicatedVehicles' = deduplicateVehicles(allVehicles)
  /\ dedupePasses' = 1
  /\ UNCHANGED <<alertVars, filterVars, allVehicles, fanoutVars>>

\* deduplicateVehicles applied to its own output
DeduplicateAgain ==
  /\ dedupePasses = 1
  /\ deduplicatedVehicles' = deduplicateVehicles(deduplicatedVehicles)
  /\ dedupePasses' = 2
  /\ UNCHANGED <<alertVars, filterVars, allVehicles, fanoutVars>>

\* ------------------------------------------------- vehicles: the vehicle id
\* the id attributes a PYP inventory page can carry on its result rows (a
\* string is the list of its parts)
PypRowIds == {<<"1">>, <<"2">>, <<"row52-", "1">>}

\* the numeric ids of the row52 API
Row52RawIds == 1..NumVehicles

\* the VINs the two upstreams list
UpstreamVins == {Vin(1), Vin(2), Vin(3)}

\* transformRow52Vehicle: id: `row52-${row52Vehicle.id}`
transformRow52Vehicle(row52Vehicle) ==
  [id |-> <<"row52-", ToString(row52Vehicle.id)>>, vin |-> row52Vehicle.vin,
   source |-> "row52", locationCode |-> row52Vehicle.locationId]

\* parseVehicleInventoryHTML: the id of a vehicle is the id attribute of
\* its result row
parseVehicleInventoryHTML(html, location) ==
  [i \in 1..Len(html) |->
     [id |-> html[i].id, vin |-> html[i].vin, locationCode |-> location]]

\* the map of the pyp branch over the parsed vehicles of one location
WithPypSource(parsedVehicles) ==
  [i \in 1..Len(parsedVehicles) |->
     [id |-> parsedVehicles[i].id, vin |-> parsedVehicles[i].vin,
      source |-> "pyp", locationCode |-> parsedVehicles[i].locationCode]]

\* search, both sources answering: PYP locations 1 and 2 list one row each
\* and row52 lists one vehicle; allVehicles gets the three in this order
MergeSources ==
  /\ allVehicles = <<>> /\ dedupePasses = 0
  /\ \E id1 \in PypRowIds, id2 \in PypRowIds, n \in Row52RawIds, vin \in UpstreamVins :
       allVehicles' =
         WithPypSource(parseVehicleInventoryHTML(<<[id |-> id1, vin |-> Vin(1)]>>, 1))
         \o WithPypSource(parseVehicleInventoryHTML(<<[id |-> id2, vin |-> Vin(2)]>>, 2))
         \o <<transformRow52Vehicle([id |-> n, vin |-> vin, locationId |-> 1])>>
  /\ UNCHANGED <<alertVars, filterVars, deduplicatedVehicles, dedupePasses, fanoutVars>>

\* ------------------------------------------ vehicles router: the fan-out
\* what the upstreams hold: one vehicle at each PYP location, and two row52
\* vehicles at one row52 yard, the first under the VIN of PYP location 1
PypInventory(l) ==
  <<[id |-> l, vin |-> Vin(l), source |-> "pyp", locationCode |-> l]>>

Row52Inventory ==
  <<[id |-> 1, vin |-> Vin(1), source |-> "row52", locationCode |-> 1],
    [id |-> 2, vin |-> Vin(0), source |-> "row52", locationCode |-> 1]>>

\* `${source}-${locationCode}`; the code of "pyp-all" and "row52-all" is All
All == 0

ErrorLabel(source, code) == <<source, code>>

\* the ends of a branch of search
Settled == {"off", "done", "empty", "failed", "cancelled"}

\* the locations whose task was submitted to the limiter
Submitted == {l \in Locations : task[l].pc # "none"}

\* vehiclesRouter.search is called with these sources
Search(sources) ==
  /\ pypPc = "idle" /\ row52Pc = "idle"
  /\ pypPc' = IF "pyp" \in sources THEN "start" ELSE "off"
  /\ row52Pc' = IF "row52" \in sources THEN "start" ELSE "off"
  /\ UNCHANGED <<alertVars, filterVars, mergeVars, signal, queue, task, locationsWithErrors,
                 totalLocationsCovered, searchResult>>

\* the request's AbortSignal fires while the call is in progress
Abort ==
  /\ ~signal
  /\ searchResult.status = "pending"
  /\ pypPc # "idle" \/ row52Pc # "idle"
  /\ signal' = TRUE
  /\ UNCHANGED <<alertVars, filterVars, mergeVars, pypPc, row52Pc, queue, task,
                 locationsWithErrors, totalLocationsCovered, searchResult>>

\* pyp branch: checkAborted, fetchLocationsFromPYP (which falls back to the
\* mock list and never throws), then one limit(...) task per location
PypFanout(locationsToSearch) ==
  /\ pypPc = "start"
  /\ IF signal
     THEN /\ pypPc' = "cancelled"
          /\ UNCHANGED <<queue, task, totalLocationsCovered>>
     ELSE /\ pypPc' = "fanout"
          /\ totalLocationsCovered' = totalLocationsCovered + Len(locationsToSearch)
          /\ queue' = locationsToSearch
          /\ task' = [l \in Locations |->
                        IF \E i \in 1..Len(locationsToSearch) : locationsToSearch[i] = l
                        THEN [IdleTask EXCEPT !.pc = "queued"]
                        ELSE task[l]]
  /\ UNCHANGED <<alertVars, filterVars, mergeVars, signal, row52Pc, locationsWithErrors,
                 searchResult>>

\* pLimit: activeCount
ActiveCount ==
  Cardinality({l \in Locations : task[l].pc \in {"session", "request"}})

\* a limiter that starts a task whenever one waits
HasFreeSlotAlways == TRUE

\* pLimit: activeCount < concurrency
HasFreeSlot == ActiveCount < MAX_CONCURRENT_REQUESTS

\* pLimit dequeues the first waiting task and runs it: checkAborted, then
\* fetchVehicleInventory, which sends the session request
StartTask ==
  /\ queue # <<>>
  /\ HasFreeSlot
  /\ queue' = Tail(queue)
  /\ task' = [task EXCEPT ![Head(queue)] =
                IF signal
                THEN [@ EXCEPT !.pc = "done", !.result = "rejected"]
                ELSE [@ EXCEPT !.pc = "session"]]
  /\ UNCHANGED <<alertVars, filterVars, mergeVars, signal, pypPc, row52Pc, locationsWithErrors,
                 totalLocationsCovered, searchResult>>

\* fetchVehicleInventoryInternal: the session request settles; after a
\* failure the catch returns []
SessionResponse(l, outcomes) ==
  /\ task[l].pc = "session"
  /\ \E outcome \in (IF signal THEN {"abort"} ELSE outcomes) :
       task' = [task EXCEPT ![l] =
                  IF outcome = "ok"
                  THEN [@ EXCEPT !.pc = "request"]
                  ELSE [@ EXCEPT !.pc = "done", !.result = "empty",
                                 !.last = outcome]]
  /\ UNCHANGED <<alertVars, filterVars, mergeVars, signal, pypPc, row52Pc, queue,
                 locationsWithErrors, totalLocationsCovered, searchResult>>

\* the error of these responses is an AbortError
IsAbortError(response) == response \in {"abort", "timeout"}

\* the retry option of backOff
Retry(response) == ~IsAbortError(response)

\* fetchWithRetry: one attempt of backOff settles. A response that is not ok
\* throws; backOff counts it, asks retry and gives up at numOfAttempts; the
\* error then reaches the catch of fetchVehicleInventoryInternal, which
\* returns []
Response(l, responses) ==
  /\ task[l].pc = "request"
  /\ \E response \in (IF signal THEN {"abort"} ELSE responses) :
       task' = [task EXCEPT ![l] =
                  IF response = "ok"
                  THEN [@ EXCEPT !.pc = "done", !.result = "vehicles",
                                 !.last = response]
                  ELSE IF ~Retry(response) \/ @.attemptNumber + 1 >= MAX_RETRIES
                  THEN [@ EXCEPT !.pc = "done", !.result = "empty",
                                 !.last = response,
                                 !.attemptNumber = @ + 1]
                  ELSE [@ EXCEPT !.last = response, !.attemptNumber = @ + 1]]
  /\ UNCHANGED <<alertVars, filterVars, mergeVars, signal, pypPc, row52Pc, queue,
                 locationsWithErrors, totalLocationsCovered, searchResult>>

\* the cached call of fetchVehicleInventory itself rejects: the only error
\* that reaches the catch of the task
CacheRejects(l) ==
  /\ task[l].pc = "session"
  /\ task' = [task EXCEPT ![l] = [@ EXCEPT !.pc = "done", !.result = "empty",
                                           !.last = "cache"]]
  /\ locationsWithErrors' =
       IF signal THEN locationsWithErrors
       ELSE Append(locationsWithErrors, ErrorLabel("pyp", l))
  /\ UNCHANGED <<alertVars, filterVars, mergeVars, signal, pypPc, row52Pc, queue,
                 totalLocationsCovered, searchResult>>

\* pypResults.flat() over the locations from l on
RECURSIVE PypResultsFrom(_)
PypResultsFrom(l) ==
  IF l > NumLocations THEN <<>>
  ELSE (IF task[l].result = "vehicles" THEN PypInventory(l) ELSE <<>>)
       \o PypResultsFrom(l + 1)

\* pyp branch: Promise.all(pypVehiclePromises) settles, on the first task
\* that rejects or when every task has returned
PypJoin ==
  /\ pypPc = "fanout"
  /\ LET rejected == \E l \in Submitted : task[l].result = "rejected"
     IN  /\ rejected \/ \A l \in Submitted : task[l].pc = "done"
         /\ IF signal
            THEN /\ pypPc' = "cancelled"
                 /\ UNCHANGED <<allVehicles, locationsWithErrors>>
            ELSE IF rejected
            THEN /\ pypPc' = "failed"
                 /\ locationsWithErrors' =
                      Append(locationsWithErrors, ErrorLabel("pyp", All))
                 /\ UNCHANGED allVehicles
            ELSE /\ pypPc' = "done"
                 /\ allVehicles' = allVehicles \o PypResultsFrom(1)
                 /\ UNCHANGED locationsWithErrors
  /\ UNCHANGED <<alertVars, filterVars, deduplicatedVehicles, dedupePasses, signal, row52Pc,
                 queue, task, totalLocationsCovered, searchResult>>

\* uniqueRow52Locations.size
UniqueLocations(vehicles) ==
  Cardinality({vehicles[i].locationCode : i \in 1..Len(vehicles)})

\* row52 branch: checkAborted, fetchVehiclesFromRow52, checkAborted. The
\* adapter returns the vehicles, or [] after a failure it caught, or its
\* cached call rejects
Row52Branch(outcomes) ==
  /\ row52Pc = "start"
  /\ IF signal
     THEN /\ row52Pc' = "cancelled"
          /\ UNCHANGED <<allVehicles, locationsWithErrors, totalLocationsCovered>>
     ELSE \E outcome \in outcomes :
            LET row52Vehicles == IF outcome = "vehicles" THEN Row52Inventory ELSE <<>>
            IN  IF outcome = "rejects"
                THEN /\ row52Pc' = "failed"
                     /\ locationsWithErrors' =
                          Append(locationsWithErrors, ErrorLabel("row52", All))
                     /\ UNCHANGED <<allVehicles, totalLocationsCovered>>
                ELSE /\ row52Pc' = IF outcome = "vehicles" THEN "done" ELSE "empty"
                     /\ allVehicles' = allVehicles \o row52Vehicles
                     /\ totalLocationsCovered' =
                          totalLocationsCovered + UniqueLocations(row52Vehicles)
                     /\ UNCHANGED locationsWithErrors
  /\ UNCHANGED <<alertVars, filterVars, deduplicatedVehicles, dedupePasses, signal, pypPc,
                 queue, task, searchResult>>

\* a branch whose catch lets the failure through
SourcePromiseRejectsOnFailure(pc) ==
  IF pc = "failed" THEN "rejected" ELSE "fulfilled"

\* the promise of a branch: its body is one try/catch that returns
SourcePromise(pc) == "fulfilled"

\* sourcesToSearch
SourcesToSearch ==
  {s \in Sources : IF s = "pyp" THEN pypPc # "off" ELSE row52Pc # "off"}

\* ------------------------------------------------------ vehicles: filters
\* a string whose case matters is the pair of its lower-case form and its
\* casing ("lower", "upper" or "title"): "Black" is <<"black", "title">>
toLowerCase(str) == <<str[1], "lower">>

\* COLOR_ALIASES[lower] ?? lower
COLOR_ALIASES(lower) ==
  CASE lower = "blk" -> "black"
    [] lower = "blu" -> "blue"
    [] lower = "brn" -> "brown"
    [] lower = "brz" -> "bronze"
    [] lower = "burg" -> "burgundy"
    [] lower = "char" -> "charcoal"
    [] lower = "gld" -> "gold"
    [] lower = "grn" -> "green"
    [] lower = "gry" -> "gray"
    [] lower = "grey" -> "gray"
    [] lower = "mrn" -> "maroon"
    [] lower = "org" -> "orange"
    [] lower = "pur" -> "purple"
    [] lower = "sil" -> "silver"
    [] lower = "wht" -> "white"
    [] lower = "yel" -> "yellow"
    [] lower = "grey/silver" -> "silver"
    [] OTHER -> lower

\* isValidColor: not empty, not "UNKNOWN", not "Other", and no prefix
\* "FIELD - " or "["
isValidColor(color) ==
  /\ color[1] # ""
  /\ color # <<"unknown", "upper">>
  /\ color # <<"other", "title">>
  /\ ~(color[1] \in {"field - 12"} /\ color[2] = "upper")
  /\ color[1] \notin {"[none]"}

\* normalizeColor
normalizeColor(color) ==
  IF ~isValidColor(color) THEN NULL
  ELSE <<COLOR_ALIASES(toLowerCase(color)[1]), "lower">>

\* Array.prototype.includes
Includes(list, x) == \E i \in 1..Len(list) : list[i] = x

\* list.map((m) => m.toLowerCase())
Lowered(list) == [i \in 1..Len(list) |-> toLowerCase(list[i])]

\* filterVehicles, the colour test: normalizedColors holds the lower-cased
\* filter values
ColorPasses(vehicle, colors) ==
  LET vehicleColor == normalizeColor(vehicle.color)
  IN  vehicleColor # NULL /\ Includes(Lowered(colors), vehicleColor)

\* filterVehicles (no caller sets models, dateRange or maxDistance)
filterVehicles(vehicles, input) ==
  SelectSeq(vehicles, LAMBDA vehicle :
    /\ input.sources # {} => vehicle.source \in input.sources
    /\ input.makes # <<>> => Includes(Lowered(input.makes), toLowerCase(vehicle.make))
    /\ input.colors # <<>> => ColorPasses(vehicle, input.colors)
    /\ input.states # <<>> => Includes(input.states, vehicle.location.stateAbbr)
    /\ input.yearRange # <<>> =>
         ~(vehicle.year < input.yearRange[1] \/ vehicle.year > input.yearRange[2]))

\* the input of a search call that sets no filter but these sources
SourcesOnly(sources) ==
  [sources |-> sources, makes |-> <<>>, colors |-> <<>>, states |-> <<>>,
   yearRange |-> <<>>]

\* vehiclesRouter.search on the merged list, after the fan-out
SearchVehicles(vehicles, input) ==
  filterVehicles(deduplicateVehicles(vehicles), input)

\* filters.minYear && filters.maxYear
Truthy(year) == year # NoYear /\ year # 0

\* processSearch: the search call with the filters the API supports, the
\* salvageYards filter on location.name, and the ids of the result
ProcessSearchCurrent ==
  /\ ~currentVehicleIds.computed
  /\ LET searchResultVehicles ==
            SearchVehicles(allVehicles,
              [sources |-> {}, makes |-> filters.makes, colors |-> filters.colors,
               states |-> filters.states,
               yearRange |-> IF Truthy(filters.minYear) /\ Truthy(filters.maxYear)
                             THEN <<filters.minYear, filters.maxYear>> ELSE <<>>])
          filtered ==
            IF filters.salvageYards # <<>>
            THEN SelectSeq(searchResultVehicles,
                   LAMBDA v : Includes(filters.salvageYards, v.location.name))
            ELSE searchResultVehicles
     IN  currentVehicleIds' =
           [computed |-> TRUE, ids |-> {filtered[i].id : i \in 1..Len(filtered)}]
  /\ UNCHANGED <<alertVars, mergeVars, fanoutVars, filters, filteredVehicles>>

\* new Date().getFullYear()
currentYear == 2026

\* Math.min(...years) of the search results, 1900 without results
DataMinYear(vehicles) ==
  IF vehicles = <<>> THEN 1900
  ELSE CHOOSE y \in {vehicles[i].year : i \in 1..Len(vehicles)} :
         \A i \in 1..Len(vehicles) : y <= vehicles[i].year

\* minYearParam ?? dataMinYear
OrElse(param, default) == IF param = NoYear THEN default ELSE param

\* SearchPageContent opened with the filter bag: the search call without
\* filters, then filteredVehicles
SearchPageContent ==
  /\ ~filteredVehicles.computed
  /\ LET searchResults == SearchVehicles(allVehicles, SourcesOnly({}))
          yearRange == <<OrElse(filters.minYear, DataMinYear(searchResults)),
                         OrElse(filters.maxYear, currentYear)>>
          shown ==
            SelectSeq(searchResults, LAMBDA vehicle :
              /\ ~(vehicle.year < yearRange[1] \/ vehicle.year > yearRange[2])
              /\ filters.makes # <<>> =>
                   Includes(Lowered(filters.makes), toLowerCase(vehicle.make))
              /\ filters.colors # <<>> => ColorPasses(vehicle, filters.colors)
              /\ filters.states # <<>> => Includes(filters.states, vehicle.location.state)
              /\ filters.salvageYards # <<>> =>
                   Includes(filters.salvageYards, vehicle.location.name))
     IN  filteredVehicles' =
           [computed |-> TRUE, ids |-> {shown[i].id : i \in 1..Len(shown)}]
  /\ UNCHANGED <<alertVars, mergeVars, fanoutVars, filters, currentVehicleIds>>


\* search: Promise.all(sourcePromises) settles, checkAborted, the merge,
\* the filter and the return
SearchReturn ==
  /\ searchResult.status = "pending"
  /\ pypPc \in Settled /\ row52Pc \in Settled
  /\ IF signal \/ "rejected" \in {SourcePromise(pypPc), SourcePromise(row52Pc)}
     THEN /\ searchResult' = [searchResult EXCEPT !.status = "thrown"]
          /\ UNCHANGED <<deduplicatedVehicles, dedupePasses>>
     ELSE /\ deduplicatedVehicles' = deduplicateVehicles(allVehicles)
          /\ dedupePasses' = 1
          /\ searchResult' =
               [status |-> "returned",
                vehicles |-> filterVehicles(deduplicatedVehicles', SourcesOnly(SourcesToSearch)),
                locationsCovered |->
                  totalLocationsCovered - Len(locationsWithErrors),
                locationsWithErrors |-> locationsWithErrors]
  /\ UNCHANGED <<alertVars, filterVars, allVehicles, signal, pypPc, row52Pc, queue, task,
                 locationsWithErrors, totalLocationsCovered>>

\* --------------------------------------------------------------------- Next
\* the steps of the cron invocations R over the searches S, the search
\* results drawn from the id sets in V
Cron(R, S, V) ==
  \E r \in R :
    \/ CronSelect(r)
    \/ AcquireLock(r)
    \/ FinishBatch(r)
    \/ \E s \in S :
         \/ CheckUser(r, s)
         \/ \E current \in V : ProcessSearch(r, s, current)
         \/ ProcessSearchThrows(r, s)
         \/ SendNotifications(r, s)
         \/ PersistSnapshot(r, s)
         \/ ReleaseLock(r, s)

\* the requests of the signed-in users on the searches S
SavedSearchesRouter(S) ==
  \E u \in Users, s \in S :
    \/ \E e \in BOOLEAN, d \in BOOLEAN : Create(u, s, e, d)
    \/ \E enabled \in BOOLEAN : ToggleEmailAlerts(u, s, enabled)
    \/ \E enabled \in BOOLEAN : ToggleDiscordAlerts(u, s, enabled)
    \/ Unsubscribe(s)

UserRouter ==
  \E u \in Users :
    \/ LinkDiscord(u)
    \/ VerifyDiscordAppInstalled(u)
    \/ DisconnectDiscordApp(u)

Polar ==
  \E u \in Users :
    \/ SubscriptionChange(u)
    \/ OnCustomerStateChanged(u)

\* the search results of the scenarios that draw from two result sets
FewResults == {{1}, VehicleIds}

\* Spec: alert cycles one after the other on one saved search, with the
\* requests of the savedSearches router and Polar in between
Next ==
  \/ Cron({"r1"}, {"s1"}, SUBSET VehicleIds)
  \/ SavedSearchesRouter({"s1"})
  \/ Polar
  \/ Tick

Spec == Init /\ [][Next]_vars

\* SpecOverlap: the cron trigger is invoked again while an invocation is in
\* progress (two invocations, one saved search)
NextOverlap ==
  \/ Cron(Runs, {"s1"}, FewResults)
  \/ \E u \in Users, e \in BOOLEAN : Create(u, "s1", e, FALSE)
  \/ \E u \in Users : SubscriptionChange(u)
  \/ Tick

SpecOverlap == Init /\ [][NextOverlap]_vars

\* SpecLock: one invocation at a time over two saved searches; an
\* invocation can die at any point and leave its locks behind
NextLock ==
  \/ Cron({"r1"}, TwoSearches, FewResults)
  \/ Crash("r1")
  \/ \E u \in Users, s \in TwoSearches, e \in BOOLEAN : Create(u, s, e, FALSE)
  \/ \E u \in Users : SubscriptionChange(u)
  \/ Tick

SpecLock == Init /\ [][NextLock]_vars

\* SpecUser: every request that writes the alert toggles or the user's
\* Discord fields, with alert cycles in between (the clock does not matter
\* to these requests and stands still)
NextUser ==
  \/ Cron({"r1"}, {"s1"}, FewResults)
  \/ SavedSearchesRouter({"s1"})
  \/ UserRouter
  \/ Polar

SpecUser == Init /\ [][NextUser]_vars

\* SpecDedupe: deduplicateVehicles on every merged list of at most
\* MaxListLen vehicles
InitDedupe ==
  /\ InitAlerts
  /\ allVehicles \in SeqUpTo(MergedVehicles, MaxListLen)
  /\ deduplicatedVehicles = <<>>
  /\ dedupePasses = 0
  /\ InitFanout
  /\ InitFilter

NextDedupe ==
  \/ Deduplicate
  \/ DeduplicateAgain

SpecDedupe == InitDedupe /\ [][NextDedupe]_vars

\* the upstream answers to an inventory request, and the request timeout
Responses == {"ok", "4xx", "5xx", "network", "timeout"}

\* the location lists of the scenarios
FewLocations == <<1, 2>>

AllLocations == [l \in Locations |-> l]

\* SpecSearch: one call of search over both sources and two PYP locations,
\* with every upstream answer and the cancellation of the request
NextSearch ==
  \/ Search(Sources)
  \/ Abort
  \/ PypFanout(FewLocations)
  \/ StartTask
  \/ \E l \in Locations :
       \/ SessionResponse(l, {"ok", "network"})
       \/ Response(l, Responses)
       \/ CacheRejects(l)
  \/ PypJoin
  \/ Row52Branch({"vehicles", "empty", "rejects"})
  \/ SearchReturn

SpecSearch == Init /\ [][NextSearch]_vars

\* SpecLimit: one call of search over every PYP location, the upstream
\* answering every request
NextLimit ==
  \/ Search({"pyp"})
  \/ PypFanout(AllLocations)
  \/ StartTask
  \/ \E l \in Locations :
       \/ SessionResponse(l, {"ok"})
       \/ Response(l, {"ok"})
  \/ PypJoin
  \/ SearchReturn

SpecLimit == Init /\ [][NextLimit]_vars

\* SpecBatch: one invocation at a time over six saved searches of a
\* subscribed user, so that a run has a batch of five and a batch of one;
\* s1 has a snapshot of an earlier cycle, the others have none; every
\* database call of a worker can throw; the trigger fires on the table as
\* it is at the start
BatchRows ==
  [s \in SearchIds |->
     [exists |-> TRUE, userId |-> "u1",
      emailAlertsEnabled |-> TRUE, discordAlertsEnabled |-> FALSE,
      lastCheckedAt |-> NoDate,
      lastVehicleIds |-> IF s = "s1" THEN Stringify({1}) ELSE NULL,
      processingLock |-> NoDate]]

InitBatch ==
  /\ now = 0
  /\ rows = BatchRows
  /\ users = [u \in Users |-> [discordId |-> FALSE, discordAppInstalled |-> FALSE]]
  /\ sub = [u \in Users |-> TRUE]
  /\ webhook = [u \in Users |-> "none"]
  /\ runPc = [r \in Runs |-> "idle"]
  /\ sel = [r \in Runs |-> <<>>]
  /\ bi = [r \in Runs |-> 0]
  /\ lk = [r \in Runs |-> 0]
  /\ wk = [r \in Runs |-> [s \in SearchIds |-> IdleWorker]]
  /\ hist = [clean |-> TRUE, baseline |-> [s \in SearchIds |-> "none"],
             recording |-> FALSE, notified |-> [s \in SearchIds |-> {}]]
  /\ InitSearch

NextBatch ==
  \/ rows = BatchRows /\ CronSelectBy("r1", TRUE)
  \/ AcquireLock("r1")
  \/ FinishBatch("r1")
  \/ \E s \in SearchIds :
       \/ CheckUser("r1", s)
       \/ ProcessSearch("r1", s, VehicleIds)
       \/ ProcessSearchThrows("r1", s)
       \/ WorkerThrows("r1", s)
       \/ SendNotifications("r1", s)
       \/ PersistSnapshot("r1", s)
       \/ ReleaseLock("r1", s)

SpecBatch == InitBatch /\ [][NextBatch]_vars

\* the event loop runs every continuation that is ready: the run does not
\* stop while one of its steps can be taken
SpecBatchFair == SpecBatch /\ WF_vars(NextBatch)

\* the ids search returns when the fetch of the PYP locations in answered
\* succeeds and the fetch of every other location fails
\* (fetchVehicleInventoryInternal then returns [])
ResultWhenAnswered(answered) ==
  UNION {{PypInventory(l)[i].id : i \in 1..Len(PypInventory(l))} : l \in answered}

OutageResults ==
  {ResultWhenAnswered(answered) :
     answered \in SUBSET {FewLocations[i] : i \in 1..Len(FewLocations)}}

\* SpecOutage: alert cycles one after the other on one saved search of a
\* subscribed user, over an upstream inventory that never changes and
\* locations whose fetch fails in some cycles
NextOutage ==
  \/ Cron({"r1"}, {"s1"}, OutageResults)
  \/ \E u \in Users : Create(u, "s1", TRUE, FALSE)
  \/ \E u \in Users : ~sub[u] /\ SubscriptionChange(u)
  \/ Tick

\* the history of SpecOutage records the ids of every payload
InitOutage ==
  /\ now = 0
  /\ rows = [s \in SearchIds |-> NoRow]
  /\ users = [u \in Users |-> [discordId |-> FALSE, discordAppInstalled |-> FALSE]]
  /\ sub = [u \in Users |-> FALSE]
  /\ webhook = [u \in Users |-> "none"]
  /\ runPc = [r \in Runs |-> "idle"]
  /\ sel = [r \in Runs |-> <<>>]
  /\ bi = [r \in Runs |-> 0]
  /\ lk = [r \in Runs |-> 0]
  /\ wk = [r \in Runs |-> [s \in SearchIds |-> IdleWorker]]
  /\ hist = [clean |-> TRUE, baseline |-> [s \in SearchIds |-> "none"],
             recording |-> TRUE, notified |-> [s \in SearchIds |-> {}]]
  /\ InitSearch

SpecOutage == InitOutage /\ [][NextOutage]_vars

\* SpecIds: one merge of the vehicles of two PYP locations and of row52,
\* for every id the upstreams can assign
NextIds ==
  \/ MergeSources
  \/ allVehicles # <<>> /\ Deduplicate

SpecIds == Init /\ [][NextIds]_vars

\* the colours the upstreams report for a vehicle
VehicleColors ==
  {<<"black", "title">>, <<"black", "upper">>, <<"blk", "upper">>, <<"blue", "title">>,
   <<"unknown", "upper">>, <<"[none]", "lower">>, <<"", "lower">>}

\* the upstream vehicles of the filter scenarios: a PYP vehicle of the
\* given colour and year in Alabama and a row52 vehicle in California
Upstream(color, year) ==
  <<[id |-> <<"1">>, vin |-> Vin(1), source |-> "pyp", locationCode |-> 1,
     year |-> year, make |-> <<"toyota", "title">>, color |-> color,
     location |-> [name |-> "Birmingham", state |-> "Alabama", stateAbbr |-> "AL"]],
    [id |-> <<"row52-", "2">>, vin |-> Vin(2), source |-> "row52", locationCode |-> 2,
     year |-> 1998, make |-> <<"honda", "upper">>, color |-> <<"blu", "upper">>,
     location |-> [name |-> "Oakland", state |-> "California", stateAbbr |-> "CA"]]>>

\* the filter bags of the scenarios (filtersSchema)
FilterBags ==
  [makes : {<<>>, <<<<"toyota", "upper">>>>},
   colors : {<<>>, <<<<"blk", "lower">>>>, <<<<"black", "upper">>>>,
             <<<<"black", "title">>>>, <<<<"blue", "title">>, <<"gray", "title">>>>},
   states : {<<>>, <<"Alabama">>, <<"AL">>},
   salvageYards : {<<>>, <<"Birmingham">>},
   minYear : {NoYear, 2000},
   maxYear : {NoYear, 2010}]

\* SpecFilter: the alert engine and the search page each compute the
\* result of one saved search, for every filter bag and upstream inventory
InitFilterRun ==
  /\ InitAlerts
  /\ InitFanout
  /\ \E color \in VehicleColors, year \in {1998, 2005} :
       allVehicles = Upstream(color, year)
  /\ deduplicatedVehicles = <<>>
  /\ dedupePasses = 0
  /\ filters \in FilterBags
  /\ currentVehicleIds = NotComputed
  /\ filteredVehicles = NotComputed

NextFilter ==
  \/ ProcessSearchCurrent
  \/ SearchPageContent

SpecFilter == InitFilterRun /\ [][NextFilter]_vars

\* ==================================================================== claims
\* the age of a lock at the current time exceeds the 5-minute threshold
Stale(lock) == now - lock > 5 * 60 * 1000

AnyAlert(row) == row.emailAlertsEnabled \/ row.discordAlertsEnabled

\* the worker of r for s has gone through the diff of processSearch
Diffed(r, s) ==
  \/ wk[r][s].pc \in {"notify", "persist", "release"}
  \/ /\ wk[r][s].pc = "done"
     /\ wk[r][s].status \notin {<<"error">>, <<"subscription_expired_disabled">>,
                                <<"no_subscription_disabled">>}

\* the step is one of invocation r
StepOf(r) == wk'[r] # wk[r] \/ lk'[r] # lk[r] \/ runPc'[r] # runPc[r]

\* C1: in processSearch, with P the ids of the lastVehicleIds the run read
\* and C the current ids: if P is non-empty the vehicles handed to
\* sendNotifications are exactly C \ P, and nothing is dispatched when C \ P
\* is empty; if P is empty nothing is dispatched and C is stored.
C1_NotifiedIsCurrentMinusPrevious ==
  [][\A r \in Runs, s \in SearchIds :
       (wk[r][s].pc = "search" /\ wk'[r][s].pc \in {"notify", "release"}) =>
         LET P == ParseIds(SearchOf(r, s).lastVehicleIds)
             C == wk'[r][s].cur
             handed == wk'[r][s].payload
         IN  /\ (wk'[r][s].pc = "notify") <=> (handed # {})
             /\ P # {} => handed = C \ P
             /\ P = {} => /\ handed = {}
                          /\ rows'[s].lastVehicleIds = <<C>>]_vars

\* a run with a non-empty previous snapshot that shares ids with the current
\* result dispatches the rest of the current result
C1_Witness ==
  \E r \in Runs, s \in SearchIds :
    /\ wk[r][s].pc = "notify"
    /\ ParseIds(SearchOf(r, s).lastVehicleIds) \cap wk[r][s].cur # {}
    /\ wk[r][s].payload # {}
    /\ wk[r][s].payload # wk[r][s].cur

\* C2: only the run that finds lastVehicleIds NULL is a baseline run that
\* never notifies; every later run, also one whose stored snapshot is the
\* empty list, puts every vehicle of current minus previous in the payload.
C2_OnlyFirstRunIsBaseline ==
  \A r \in Runs, s \in SearchIds :
    Diffed(r, s) =>
      LET stored == SearchOf(r, s).lastVehicleIds
      IN  /\ stored = NULL => wk[r][s].payload = {}
          /\ stored # NULL => wk[r][s].payload = wk[r][s].cur \ ParseIds(stored)

\* C3: once processSearch is at the dispatch, whatever the answers of the
\* sinks, the run goes on to store lastVehicleIds = current ids and
\* lastCheckedAt = now and then to set processingLock to NULL; and a run that
\* reads a snapshot equal to its current result dispatches nothing.
C3_SnapshotPersistedWhateverTheDelivery ==
  [][\A r \in Runs, s \in SearchIds :
       /\ (wk[r][s].pc = "notify" /\ wk'[r][s].pc # "notify" /\ runPc'[r] = "running")
            => wk'[r][s].pc = "persist"
       /\ (wk[r][s].pc = "persist" /\ wk'[r][s].pc # "persist" /\ runPc'[r] = "running")
            => /\ wk'[r][s].pc = "release"
               /\ rows'[s].lastVehicleIds = <<wk[r][s].cur>>
               /\ rows'[s].lastCheckedAt = now
       /\ (wk[r][s].pc = "release" /\ wk'[r][s].pc # "release" /\ runPc'[r] = "running")
            => /\ wk'[r][s].pc = "done"
               /\ rows'[s].processingLock = NoDate
       /\ (wk[r][s].pc = "search" /\ wk'[r][s].pc \in {"notify", "release"}
             /\ SearchOf(r, s).lastVehicleIds = <<wk'[r][s].cur>>)
            => wk'[r][s].pc = "release"]_vars

\* a run whose every delivery failed has stored the current ids and is about
\* to release its lock
C3_Witness ==
  \E r \in Runs, s \in SearchIds :
    /\ wk[r][s].pc = "release"
    /\ wk[r][s].payload # {}
    /\ ~wk[r][s].emailSent /\ ~wk[r][s].discordSent
    /\ wk[r][s].errors # {}
    /\ rows[s].lastVehicleIds = <<wk[r][s].cur>>

\* C4: for a saved search whose first snapshot was non-empty, over cycles
\* that do not overlap and whose fetches succeed, every run after the first
\* puts in its payload exactly the ids that the previous cycle did not see:
\* each new id is notified in the first cycle that sees it and in no later
\* one while it stays.
C4_EachNewVehicleNotifiedOnce ==
  \A r \in Runs, s \in SearchIds :
    (/\ Diffed(r, s)
     /\ hist.clean
     /\ hist.baseline[s] = "nonempty"
     /\ SearchOf(r, s).lastVehicleIds # NULL)
      => wk[r][s].payload = wk[r][s].cur \ ParseIds(SearchOf(r, s).lastVehicleIds)

\* invocation r has written its lock on s and has not released it
HoldsLock(r, s) ==
  /\ wk[r][s].lockedAt # NoDate
  /\ wk[r][s].pc \in {"wait", "user", "search", "notify", "persist", "release"}

\* C5: no two invocations process the same row at the same time: while one
\* holds the lock it wrote and the lock is not stale, no other invocation
\* has written, or works under, a lock on that row.
C5_OneWorkerPerRow ==
  \A s \in SearchIds, r1 \in Runs, r2 \in Runs :
    (r1 # r2 /\ HoldsLock(r1, s) /\ HoldsLock(r2, s))
      => (Stale(wk[r1][s].lockedAt) \/ Stale(wk[r2][s].lockedAt))

\* C6: a cron run selects a row iff an alert toggle is enabled and its
\* processingLock is NULL or older than 5 minutes at the select; and a run
\* writes no field of a row it did not select.
C6_SelectedIffEligible ==
  [][\A r \in Runs :
       /\ (runPc[r] = "idle" /\ runPc'[r] = "locking") =>
            \A s \in SearchIds :
              (s \in SelIds(r)') <=>
                (/\ rows[s].exists
                 /\ AnyAlert(rows[s])
                 /\ (rows[s].processingLock = NoDate \/ Stale(rows[s].processingLock)))
       /\ (runPc[r] # "idle" /\ StepOf(r)) =>
            \A s \in SearchIds : rows'[s] # rows[s] => s \in SelIds(r)]_vars

\* a run has just selected its searches and left out one with an alert
\* enabled whose lock is not older than the threshold
C6_Witness ==
  \E r \in Runs, s \in SearchIds :
    /\ runPc[r] = "locking" /\ lk[r] = 0
    /\ s \notin SelIds(r)
    /\ rows[s].exists /\ AnyAlert(rows[s])
    /\ rows[s].processingLock # NoDate
    /\ ~Stale(rows[s].processingLock)

\* invocation r has sent a non-empty payload for s
HasNotified(r, s) ==
  wk[r][s].pc \in {"persist", "release", "done"} /\ wk[r][s].payload # {}

\* C7: re-invoking the cron trigger while a run is in progress is safe: no
\* saved search is diffed and notified by both invocations against the same
\* stored snapshot (with neither lock stale).
C7_NoDoubleNotificationOnOverlap ==
  \A s \in SearchIds, r1 \in Runs, r2 \in Runs :
    (r1 # r2 /\ HasNotified(r1, s) /\ HasNotified(r2, s)
       /\ SearchOf(r1, s).lastVehicleIds = SearchOf(r2, s).lastVehicleIds)
      => (Stale(wk[r1][s].lockedAt) \/ Stale(wk[r2][s].lockedAt))

\* a row with an alert enabled carries a lock older than 5 minutes
Orphaned(s) ==
  /\ rows[s].exists /\ AnyAlert(rows[s])
  /\ rows[s].processingLock # NoDate
  /\ Stale(rows[s].processingLock)

\* C8: a lock left behind by a dead worker does not block its search for
\* good: once the lock is older than 5 minutes and an alert is still
\* enabled, a cron run can select, every cron run that selects takes that
\* search, and the run starts a worker for every search it took.
C8_StaleLockIsSelectedAgain ==
  /\ [](\A r \in Runs, s \in SearchIds :
          /\ (Orphaned(s) /\ runPc[r] = "idle") => ENABLED CronSelect(r)
          /\ (runPc[r] = "running" /\ s \in BatchIds(r))
               => wk[r][s].pc \notin {"none", "wait"})
  /\ [][\A r \in Runs :
          (runPc[r] = "idle" /\ runPc'[r] = "locking") =>
            \A s \in SearchIds : Orphaned(s) => s \in SelIds(r)']_vars

\* a run has just selected a search that still carries the stale lock of a
\* dead worker
C8_Witness ==
  \E r \in Runs, s \in SearchIds :
    /\ runPc[r] = "locking" /\ lk[r] = 0
    /\ s \in SelIds(r)
    /\ Orphaned(s)

\* C9: when the oracle reports no active subscription for the owner, the
\* worker sets both toggles to false and processingLock to NULL, leaves
\* lastVehicleIds and lastCheckedAt as they are, and ends without a search
\* and without a notification.
C9_LapsedSubscriptionDisablesAndStops ==
  [][\A r \in Runs, s \in SearchIds :
       (/\ wk[r][s].pc = "user" /\ wk'[r][s].pc # "user" /\ runPc'[r] = "running"
        /\ ~sub[SearchOf(r, s).userId])
         => /\ wk'[r][s].pc = "done"
            /\ wk'[r][s].payload = {}
            /\ ~rows'[s].emailAlertsEnabled
            /\ ~rows'[s].discordAlertsEnabled
            /\ rows'[s].processingLock = NoDate
            /\ rows'[s].lastVehicleIds = rows[s].lastVehicleIds
            /\ rows'[s].lastCheckedAt = rows[s].lastCheckedAt]_vars

\* the oracle reported no subscription for a search that has a snapshot: the
\* toggles are off, the lock is gone and the snapshot is still there
C9_Witness ==
  \E r \in Runs, s \in SearchIds :
    /\ wk[r][s].pc = "done"
    /\ wk[r][s].status = <<"subscription_expired_disabled">>
    /\ ~AnyAlert(rows[s])
    /\ rows[s].processingLock = NoDate
    /\ rows[s].lastVehicleIds # NULL
    /\ rows[s].lastCheckedAt # NoDate

\* C10: a toggle of a row becomes true, by update or by insert, only if the
\* owner has an active subscription at that moment, and discordAlertsEnabled
\* only if the owner also has a Discord id and the Discord app installed.
C10_TogglesEnabledOnlyWithSubscription ==
  [][\A s \in SearchIds :
       LET u == rows'[s].userId
       IN  /\ (rows'[s].emailAlertsEnabled /\ ~rows[s].emailAlertsEnabled) => sub[u]
           /\ (rows'[s].discordAlertsEnabled /\ ~rows[s].discordAlertsEnabled)
                => (sub[u] /\ users[u].discordId /\ users[u].discordAppInstalled)]_vars

\* C11: once a subscription lapse has been handled, by the cron worker's
\* subscription check or by the customer-state-changed webhook that reports
\* no active subscription, emailAlertsEnabled and discordAlertsEnabled are
\* both false on every saved search the handler touched for that user.
C11_LapseClearsBothToggles ==
  [][/\ \A u \in Users, s \in SearchIds :
          (/\ webhook[u] = "inactive" /\ webhook'[u] = "none"
           /\ rows[s].exists /\ rows[s].userId = u)
            => (~rows'[s].emailAlertsEnabled /\ ~rows'[s].discordAlertsEnabled)
     /\ \A r \in Runs, s \in SearchIds :
          (/\ wk[r][s].pc = "user" /\ wk'[r][s].pc = "done"
           /\ runPc'[r] = "running")
            => (~rows'[s].emailAlertsEnabled /\ ~rows'[s].discordAlertsEnabled)]_vars

\* the vehicles of a list that carry the VIN
WithVin(vehicles, vin) == SelectSeq(vehicles, LAMBDA v : v.vin = vin)

\* the elements of a list
Range(q) == {q[i] : i \in 1..Len(q)}

\* C12: deduplicateVehicles applied to its own output returns the same
\* list, and every non-empty VIN occurs on at most one vehicle of the
\* output.
C12_DedupeIdempotentAndVinUnique ==
  [][/\ dedupePasses' >= 1 =>
          \A v \in Range(deduplicatedVehicles') :
            v.vin # EmptyVin => Len(WithVin(deduplicatedVehicles', v.vin)) = 1
     /\ (dedupePasses = 1 /\ dedupePasses' = 2) =>
          deduplicatedVehicles' = deduplicatedVehicles]_vars

\* the second pass is done, over an output in which the first pass had put
\* the pyp vehicle of a VIN in the place of the row52 vehicle before it
C12_Witness ==
  /\ dedupePasses = 2
  /\ Len(deduplicatedVehicles) < Len(allVehicles)
  /\ \E i, j \in 1..Len(allVehicles) :
       /\ i < j
       /\ allVehicles[i].vin # EmptyVin
       /\ allVehicles[i].vin = allVehicles[j].vin
       /\ allVehicles[i].source = "row52"
       /\ allVehicles[j].source = "pyp"
       /\ allVehicles[j] \in Range(deduplicatedVehicles)

\* C13: the output of deduplicateVehicles contains every vehicle of the
\* input whose VIN is empty.
C13_EmptyVinVehiclesAllKept ==
  dedupePasses = 1 =>
    \A v \in Range(allVehicles) :
      v.vin = EmptyVin => v \in Range(deduplicatedVehicles)

\* C14: for every non-empty VIN that the merged list carries on a pyp
\* vehicle and on a row52 vehicle, the output holds a pyp vehicle and no
\* row52 vehicle of that VIN, in whatever order the list is.
C14_PypOutranksRow52 ==
  dedupePasses = 1 =>
    \A a, b \in Range(allVehicles) :
      (a.vin # EmptyVin /\ a.vin = b.vin /\ a.source = "pyp" /\ b.source = "row52")
        => LET kept == WithVin(deduplicatedVehicles, a.vin)
           IN  /\ kept # <<>>
               /\ \A i \in 1..Len(kept) : kept[i].source = "pyp"

\* the row52 vehicle of a VIN came first in the list and the pyp vehicle of
\* the VIN after it
C14_Witness ==
  /\ dedupePasses = 1
  /\ \E i, j \in 1..Len(allVehicles) :
       /\ i < j
       /\ allVehicles[i].vin # EmptyVin
       /\ allVehicles[i].vin = allVehicles[j].vin
       /\ allVehicles[i].source = "row52"
       /\ allVehicles[j].source = "pyp"
  /\ \E v \in Range(deduplicatedVehicles) : v.vin # EmptyVin /\ v.source = "pyp"

\* the inventory fetch of the location failed: its task is over and returned
\* no vehicles (every location holds one)
FetchFailed(l) == task[l].pc = "done" /\ task[l].result = "empty"

\* the vehicles of the location are in the result of the call
InResult(l) == PypInventory(l)[1] \in Range(searchResult.vehicles)

\* C15: when the inventory fetch of one PYP location fails and the other
\* locations succeed, the returned SearchResult has "pyp-<locationCode>" of
\* that location in locationsWithErrors, its locationsCovered is the number
\* of locations attempted minus the one that errored, and the vehicles of
\* the other locations are in it.
C15_FailedLocationIsReported ==
  searchResult.status = "returned" =>
    \A l \in Submitted :
      (/\ FetchFailed(l)
       /\ \A k \in Submitted \ {l} : task[k].result = "vehicles")
        => /\ ErrorLabel("pyp", l) \in Range(searchResult.locationsWithErrors)
           /\ searchResult.locationsCovered = totalLocationsCovered - 1
           /\ \A k \in Submitted \ {l} : InResult(k)

\* every location of the pyp branch failed, or the branch as a whole
PypFailedEntirely ==
  \/ pypPc = "failed"
  \/ pypPc = "done" /\ \A l \in Submitted : FetchFailed(l)

\* the row52 adapter returned nothing after a failure, or the branch failed
Row52FailedEntirely == row52Pc \in {"empty", "failed"}

\* C16: a call of search whose cancellation signal has not fired returns a
\* SearchResult, it does not throw; when the row52 source failed entirely
\* the vehicles fetched from the PYP locations are in the result, and when
\* the pyp source failed entirely the row52 vehicles are.
C16_SourceFailureLeavesOtherSource ==
  (searchResult.status # "pending" /\ ~signal) =>
    /\ searchResult.status = "returned"
    /\ Row52FailedEntirely =>
         \A l \in Submitted : task[l].result = "vehicles" => InResult(l)
    /\ (PypFailedEntirely /\ row52Pc = "done") =>
         \A i \in 1..Len(Row52Inventory) :
           Row52Inventory[i] \in Range(searchResult.vehicles)

\* the cached call of the row52 adapter rejected, the branch recorded
\* "row52-all", and the call returned the vehicles of a PYP location
C16_Witness ==
  /\ searchResult.status = "returned"
  /\ row52Pc = "failed"
  /\ ErrorLabel("row52", All) \in Range(searchResult.locationsWithErrors)
  /\ \E l \in Submitted : task[l].result = "vehicles" /\ InResult(l)

\* C17: a call of search during which the cancellation signal fired does
\* not end by throwing.
C17_CancelledSearchDoesNotThrow ==
  signal => searchResult.status # "thrown"

\* a response to an inventory request of the location arrives in this step
Responds(l) == task'[l].attemptNumber = task[l].attemptNumber + 1

\* C18: in fetchWithRetry a 4xx response ends the call, no further attempt
\* is made after it; a 5xx response or a network failure is followed by
\* another attempt as long as fewer than 3 attempts have failed, and never
\* by a fourth.
C18_ClientErrorIsTerminal ==
  [][\A l \in Locations :
       Responds(l) =>
         /\ task'[l].last = "4xx" => task'[l].pc = "done"
         /\ (task'[l].last \in {"5xx", "network"}
               /\ task'[l].attemptNumber < MAX_RETRIES) => task'[l].pc = "request"
         /\ task'[l].attemptNumber = MAX_RETRIES => task'[l].pc = "done"]_vars

\* C19: an inventory request that runs into the request timeout is
\* attempted again as long as fewer than 3 attempts have failed, and a
\* location whose fetch ended on a timeout is in locationsWithErrors of
\* the returned SearchResult.
C19_TimeoutRetriedThenReported ==
  [][\A l \in Locations :
       /\ (Responds(l) /\ task'[l].last = "timeout"
             /\ task'[l].attemptNumber < MAX_RETRIES) => task'[l].pc = "request"
       /\ (searchResult'.status = "returned" /\ FetchFailed(l)'
             /\ task'[l].last = "timeout")
            => ErrorLabel("pyp", l) \in Range(searchResult'.locationsWithErrors)]_vars

\* the position of a location in the list submitted to the limiter
Position(l) == l

\* C20: at most MAX_CONCURRENT_REQUESTS (5) per-location tasks of a call are
\* in flight at a time; a task that has not started waits in the queue, and
\* a task starts only when a slot is free and every task submitted before
\* it has started.
C20_AtMostFiveInFlightInOrder ==
  [][/\ ActiveCount' <= MAX_CONCURRENT_REQUESTS
     /\ \A l \in Locations :
          task'[l].pc = "queued" => \E i \in 1..Len(queue') : queue'[i] = l
     /\ \A l \in Locations :
          (task[l].pc = "queued" /\ task'[l].pc # "queued") =>
            /\ ActiveCount < MAX_CONCURRENT_REQUESTS
            /\ \A k \in Locations :
                 Position(k) < Position(l) => task[k].pc # "queued"]_vars

\* five tasks are in flight, one of them submitted after the first five,
\* which waited until a task before it was over
C20_Witness ==
  /\ ActiveCount = MAX_CONCURRENT_REQUESTS
  /\ \E l \in Locations : task[l].pc = "done"
  /\ \E l \in Locations :
       Position(l) > MAX_CONCURRENT_REQUESTS /\ task[l].pc \in {"session", "request"}

\* C24: a step that is not a step of the alert engine (create, the two
\* toggles, the unsubscribe endpoint, disconnectDiscordApp, the
\* subscription webhook) leaves lastVehicleIds, lastCheckedAt and
\* processingLock of every row as they are, and create inserts the row with
\* all three unset.
C24_SnapshotWrittenOnlyByEngine ==
  [][runVars' = runVars =>
       \A s \in SearchIds :
         IF rows[s].exists
         THEN /\ rows'[s].exists
              /\ rows'[s].lastVehicleIds = rows[s].lastVehicleIds
              /\ rows'[s].lastCheckedAt = rows[s].lastCheckedAt
              /\ rows'[s].processingLock = rows[s].processingLock
         ELSE rows'[s].exists =>
                /\ rows'[s].lastVehicleIds = NULL
                /\ rows'[s].lastCheckedAt = NoDate
                /\ rows'[s].processingLock = NoDate]_vars

\* the worker of a run ended a search by clearing its toggles, the email
\* toggle was switched on again by toggleEmailAlerts afterwards, and the
\* snapshot and timestamp of an earlier cycle are still on the row
C24_Witness ==
  \E r \in Runs, s \in SearchIds :
    /\ wk[r][s].pc = "done"
    /\ wk[r][s].status = <<"subscription_expired_disabled">>
    /\ rows[s].emailAlertsEnabled
    /\ rows[s].lastVehicleIds # NULL
    /\ rows[s].lastCheckedAt # NoDate

\* C28: the worker of the alert engine sets the alert toggles of a search to
\* false only after the oracle answered with no active subscription; when
\* the call of the oracle threw, the toggles of the search keep their values.
C28_OracleFailureKeepsToggles ==
  [][\A r \in Runs, s \in SearchIds :
       (/\ wk[r][s].pc = "user" /\ wk'[r][s].pc # "user"
        /\ runPc'[r] = "running")
         => /\ wk'[r][s].status = <<"no_subscription_disabled">> =>
                 /\ rows'[s].emailAlertsEnabled = rows[s].emailAlertsEnabled
                 /\ rows'[s].discordAlertsEnabled = rows[s].discordAlertsEnabled
            /\ (\/ rows'[s].emailAlertsEnabled # rows[s].emailAlertsEnabled
                \/ rows'[s].discordAlertsEnabled # rows[s].discordAlertsEnabled)
                 => wk'[r][s].status = <<"subscription_expired_disabled">>]_vars

\* the run tried the channel: the sink answered, with success or failure
TriedEmail(w) == w.emailSent \/ "Email failed" \in w.errors

TriedDiscord(w) == w.discordSent \/ "Discord failed" \in w.errors

\* C26: at the dispatch for a search with new vehicles, email delivery is
\* attempted if and only if emailAlertsEnabled, and Discord delivery if and
\* only if discordAlertsEnabled and the user has a Discord id and the app
\* installed; an unmet Discord prerequisite is recorded as an error and no
\* email error; and whatever the channels answer the run goes on to the
\* snapshot update.
C26_ChannelsGatedAndIndependent ==
  [][\A r \in Runs, s \in SearchIds :
       (wk[r][s].pc = "notify" /\ wk'[r][s].pc # "notify" /\ runPc'[r] = "running")
         => LET search == SearchOf(r, s)
                w == wk'[r][s]
            IN  /\ w.payload # {}
                /\ TriedEmail(w) <=> search.emailAlertsEnabled
                /\ TriedDiscord(w) <=>
                     (/\ search.discordAlertsEnabled
                      /\ wk[r][s].discordId /\ wk[r][s].discordAppInstalled)
                /\ (search.discordAlertsEnabled /\ ~TriedDiscord(w))
                     => /\ w.errors \cap {"no Discord ID linked",
                                          "Discord app not installed"} # {}
                        /\ ~w.discordSent
                /\ ~search.emailAlertsEnabled => "Email failed" \notin w.errors
                /\ w.pc = "persist"]_vars

\* the email delivery failed, the Discord delivery of the same dispatch
\* succeeded, and the run is at the snapshot update
C26_Witness ==
  \E r \in Runs, s \in SearchIds :
    /\ wk[r][s].pc = "persist"
    /\ wk[r][s].payload # {}
    /\ "Email failed" \in wk[r][s].errors
    /\ wk[r][s].discordSent

C27_NoRepeatAfterFailedFetch ==
  [][\A r \in Runs, s \in SearchIds :
       (wk[r][s].pc = "search" /\ wk'[r][s].pc = "notify")
         => wk'[r][s].payload \cap hist.notified[s] = {}]_vars

\* C29: in every SearchResult that search returns, locationsCovered is at
\* least 0 and at most the number of locations counted as attempted,
\* whatever sources were selected and whatever failed.
C29_LocationsCoveredWithinBounds ==
  searchResult.status = "returned"
    => /\ searchResult.locationsCovered >= 0
       /\ searchResult.locationsCovered <= totalLocationsCovered

\* C22: no two distinct vehicles of a merged search result have the same
\* id, whatever ids the upstreams assign.
C22_VehicleIdsUnique ==
  dedupePasses >= 1
    => \A i \in 1..Len(deduplicatedVehicles), j \in 1..Len(deduplicatedVehicles) :
         i # j => deduplicatedVehicles[i].id # deduplicatedVehicles[j].id

\* the filter bag sets nothing but colors
OnlyColors ==
  /\ filters.colors # <<>>
  /\ filters.makes = <<>> /\ filters.states = <<>> /\ filters.salvageYards = <<>>
  /\ filters.minYear = NoYear /\ filters.maxYear = NoYear

\* the colour of the vehicle and a filter colour map to the same
\* normalized key
SameNormalizedKey(vehicle, colors) ==
  LET vehicleColor == normalizeColor(vehicle.color)
  IN  /\ vehicleColor # NULL
      /\ \E i \in 1..Len(colors) : normalizeColor(colors[i]) = vehicleColor

\* C21: a vehicle passes a non-empty colour filter of filterVehicles if and
\* only if its colour and at least one filter colour map to the same
\* normalized key of the canonicalization table.
C21_ColorFilterCanonical ==
  (currentVehicleIds.computed /\ OnlyColors)
    => \A i \in 1..Len(allVehicles) :
         allVehicles[i].id \in currentVehicleIds.ids
           <=> SameNormalizedKey(allVehicles[i], filters.colors)

\* C23: for every filter bag and every upstream inventory, the set the
\* alert engine treats as the current result is the set the search page
\* shows for the same bag.
C23_EngineShowsWhatThePageShows ==
  (currentVehicleIds.computed /\ filteredVehicles.computed)
    => currentVehicleIds.ids = filteredVehicles.ids

====
